---- MODULE Spec2Model ----
(***************************************************************************)
(* Model of the scene graph service of @antv/g                             *)
(* (packages/g/src/services/SceneGraphService.ts): the hierarchy of        *)
(* entities, the lazily recomputed local and world transforms with their   *)
(* two dirty flags, the eagerly refreshed bounding boxes and the z-index   *)
(* sort.                                                                   *)
(*                                                                         *)
(* Numbers are exact binary fractions: the integer n stands for n / Den.   *)
(* Every scale is a power of two, so products and inverses stay binary     *)
(* fractions; a result that is no multiple of 1 / Den has no value and     *)
(* stops the check.  Vectors and matrices are the x/y part of gl-matrix's  *)
(* vec3 and mat4 (the z row and column stay the identity); rotations are   *)
(* about the z axis in steps of 90 degrees, and a quaternion is the number *)
(* of quarter turns 0..3.                                                  *)
(***************************************************************************)
EXTENDS Integers, Sequences, FiniteSets, TLC

(***************************************************************************)
(* Exact arithmetic on multiples of 1 / Den                                *)
(***************************************************************************)
\* the number of binary digits after the point
FractionBits == 6
Den == 2 ^ FractionBits

\* n / d (d > 0) when it is an integer; no value otherwise
Exact(n, d) == IF n % d = 0 THEN n \div d ELSE CHOOSE x \in {} : TRUE
Mul(x, y) == Exact(x * y, Den)
Div(x, y) == Exact(x * Den, y)
Abs(x) == IF x < 0 THEN -x ELSE x
Min(x, y) == IF y < x THEN y ELSE x
Max(x, y) == IF x < y THEN y ELSE x

(***************************************************************************)
(* gl-matrix: vec3, quat and mat4 restricted to the x/y plane              *)
(***************************************************************************)
\* vec3.fromValues(x, y, 0)
V(x, y) == <<x * Den, y * Den>>
\* vec3.add, vec3.multiply
VAdd(u, v) == <<u[1] + v[1], u[2] + v[2]>>
VMul(u, v) == <<Mul(u[1], v[1]), Mul(u[2], v[2])>>

\* a matrix maps (x, y) to (a x + b y + tx, c x + d y + ty)
Mat(a, b, c, d, tx, ty) == [a |-> a, b |-> b, c |-> c, d |-> d, tx |-> tx, ty |-> ty]
\* mat4.create()
Identity == Mat(Den, 0, 0, Den, 0, 0)

\* mat4.multiply(out, m, n): the product m * n (n is applied first)
Multiply(m, n) ==
    Mat(Mul(m.a, n.a) + Mul(m.b, n.c),
        Mul(m.a, n.b) + Mul(m.b, n.d),
        Mul(m.c, n.a) + Mul(m.d, n.c),
        Mul(m.c, n.b) + Mul(m.d, n.d),
        Mul(m.a, n.tx) + Mul(m.b, n.ty) + m.tx,
        Mul(m.c, n.tx) + Mul(m.d, n.ty) + m.ty)

\* the matrix with the linear part a b / c d that undoes the translation of m
InverseOf(m, a, b, c, d) ==
    Mat(a, b, c, d, -(Mul(a, m.tx) + Mul(b, m.ty)), -(Mul(c, m.tx) + Mul(d, m.ty)))
InvertBy(m, det) ==
    InverseOf(m, Div(m.d, det), Div(-m.b, det), Div(-m.c, det), Div(m.a, det))
\* mat4.invert(out, m) for a matrix with a positive determinant
Invert(m) == InvertBy(m, Mul(m.a, m.d) - Mul(m.b, m.c))

\* vec3.transformMat4(out, p, m): the point p mapped by m
TransformMat4(p, m) ==
    <<Mul(m.a, p[1]) + Mul(m.b, p[2]) + m.tx,
      Mul(m.c, p[1]) + Mul(m.d, p[2]) + m.ty>>

\* the cosine and the sine of q quarter turns
Cos4(q) == CASE q = 0 -> 1 [] q = 1 -> 0 [] q = 2 -> -1 [] OTHER -> 0
Sin4(q) == CASE q = 0 -> 0 [] q = 1 -> 1 [] q = 2 -> 0 [] OTHER -> -1

\* quat.fromEuler(out, 0, 0, degrees) for a multiple of 90 degrees
FromEuler(deg) == (deg \div 90) % 4
\* quat.multiply of two rotations about z; quat.invert
QuatMul(p, q) == (p + q) % 4
QuatInvert(q) == (4 - q) % 4

\* vec3.transformQuat(out, v, q): v rotated by q
TransformQuat(v, q) ==
    <<Cos4(q) * v[1] - Sin4(q) * v[2], Sin4(q) * v[1] + Cos4(q) * v[2]>>

\* translate(v) * translate(o) * (a b / c d) * translate(-o)
AboutOrigin(a, b, c, d, v, o) ==
    Mat(a, b, c, d,
        v[1] + o[1] - (Mul(a, o[1]) + Mul(b, o[2])),
        v[2] + o[2] - (Mul(c, o[1]) + Mul(d, o[2])))
\* mat4.fromRotationTranslationScaleOrigin(out, q, v, s, o):
\* translate(v) * translate(o) * rotate(q) * scale(s) * translate(-o)
FromRotationTranslationScaleOrigin(q, v, s, o) ==
    AboutOrigin(Cos4(q) * s[1], -Sin4(q) * s[2], Sin4(q) * s[1], Cos4(q) * s[2], v, o)

\* Math.hypot of a column that has one zero entry (quarter-turn matrices)
Hypot(x, y) == IF x = 0 THEN Abs(y) ELSE Abs(x)
\* mat4.getScaling(out, m): the lengths of the columns
GetScaling(m) == <<Hypot(m.a, m.c), Hypot(m.b, m.d)>>
\* mat4.getTranslation(out, m)
GetTranslation(m) == <<m.tx, m.ty>>
\* the quarter turns with the cosine co and the sine si
QuarterTurns(co, si) ==
    CASE co = Den -> 0 [] si = Den -> 1 [] co = -Den -> 2 [] OTHER -> 3
\* mat4.getRotation(out, m): the rotation of the matrix with its scaling
\* divided out, read off the first column (cos, sin)
GetRotation(m) ==
    IF m.a = 0 /\ m.c = 0 THEN 0
    ELSE QuarterTurns(Div(m.a, Hypot(m.a, m.c)), Div(m.c, Hypot(m.a, m.c)))

(***************************************************************************)
(* Bounds and inputs                                                       *)
(***************************************************************************)
\* the calls of one run of Spec, of SpecFixed, of SpecTree and of SpecOrder
MaxSteps == 2
MaxFixedSteps == 3
MaxTreeSteps == 3
MaxOrderSteps == 3

Nodes == {1, 2, 3}
\* no entity (a null parent)
Nil == 0
\* an index argument that is omitted
NoIndex == -1
IndexInputs == {NoIndex, 0, 1}
PositionInputs == {V(0, 0), V(10, 0)}
TranslationInputs == {V(1, 0)}
ScaleInputs == {V(2, 2)}
OriginInputs == {V(1, 1)}
DegreeInputs == {90}
ZIndexInputs == {0, 1}
\* the entities that carry a Renderable (and a Geometry) component
RenderableChoices == {{}, {2, 3}}

(***************************************************************************)
(* Components that the service reads and writes                            *)
(***************************************************************************)
\* geometry.aabb: the object-space box of every shape, <<min, max>>
GeometryAABB == <<V(-1, -1), V(1, 1)>>

\* the box around four points
BoxAround(p1, p2, p3, p4) ==
    << <<Min(Min(p1[1], p2[1]), Min(p3[1], p4[1])),
         Min(Min(p1[2], p2[2]), Min(p3[2], p4[2]))>>,
       <<Max(Max(p1[1], p2[1]), Max(p3[1], p4[1])),
         Max(Max(p1[2], p2[2]), Max(p3[2], p4[2]))>> >>
\* AABB.setFromTransformedAABB(box, m): the box around the transformed corners
setFromTransformedAABB(box, m) ==
    BoxAround(TransformMat4(<<box[1][1], box[1][2]>>, m),
              TransformMat4(<<box[1][1], box[2][2]>>, m),
              TransformMat4(<<box[2][1], box[1][2]>>, m),
              TransformMat4(<<box[2][1], box[2][2]>>, m))

\* the function that maps every entity to v
ForAll(v) == <<>> @@ [n \in Nodes |-> v]

\* the components of freshly constructed entities, of which those in r carry
\* a Renderable: SceneGraphNode, Transform, Sortable and Renderable defaults
Fresh(r) ==
    [parent |-> ForAll(Nil),
     children |-> ForAll(<<>>),
     frozen |-> ForAll(FALSE),
     localPosition |-> ForAll(V(0, 0)),
     localRotation |-> ForAll(0),
     localScale |-> ForAll(V(1, 1)),
     origin |-> ForAll(V(0, 0)),
     localTransform |-> ForAll(Identity),
     worldTransform |-> ForAll(Identity),
     localDirtyFlag |-> ForAll(FALSE),
     dirtyFlag |-> ForAll(FALSE),
     zIndex |-> ForAll(0),
     sortableDirty |-> ForAll(FALSE),
     sorted |-> ForAll(<<>>),
     renderable |-> r,
     aabb |-> ForAll(<<>>),
     renderableDirty |-> ForAll(FALSE),
     emitted |-> <<>>]

(***************************************************************************)
(* SceneGraphService: transform queries                                    *)
(***************************************************************************)
getLocalTransform(s, entity) ==
    IF s.localDirtyFlag[entity]
    THEN [s EXCEPT !.localTransform[entity] =
                       FromRotationTranslationScaleOrigin(
                           s.localRotation[entity], s.localPosition[entity],
                           s.localScale[entity], s.origin[entity]),
                   !.localDirtyFlag[entity] = FALSE]
    ELSE s

\* updateTransform, the branch of a set dirtyFlag, once getLocalTransform
\* has returned: the world matrix is written and the flag cleared
updateWorldTransform(s, entity) ==
    [s EXCEPT !.worldTransform[entity] =
                  IF s.parent[entity] = Nil
                  THEN s.localTransform[entity]
                  ELSE Multiply(s.worldTransform[s.parent[entity]],
                                s.localTransform[entity]),
              !.dirtyFlag[entity] = FALSE]

\* updateTransform after its first statement
updateTransformDirty(s, entity) ==
    IF s.dirtyFlag[entity]
    THEN updateWorldTransform(getLocalTransform(s, entity), entity)
    ELSE s

updateTransform(s, entity) ==
    updateTransformDirty(IF s.localDirtyFlag[entity]
                         THEN getLocalTransform(s, entity)
                         ELSE s,
                         entity)

\* a faulty getWorldTransform that refreshes the entity without first
\* refreshing its parent
getWorldTransformSelfOnly(s, entity) ==
    IF ~s.localDirtyFlag[entity] /\ ~s.dirtyFlag[entity]
    THEN s
    ELSE updateTransform(s, entity)

RECURSIVE getWorldTransform(_, _)
getWorldTransform(s, entity) ==
    IF ~s.localDirtyFlag[entity] /\ ~s.dirtyFlag[entity]
    THEN s
    ELSE updateTransform(IF s.parent[entity] # Nil
                         THEN getWorldTransform(s, s.parent[entity])
                         ELSE s,
                         entity)

\* the values returned by getPosition, getRotation and getScale
getPosition(s, entity) == GetTranslation(getWorldTransform(s, entity).worldTransform[entity])
getRotation(s, entity) == GetRotation(getWorldTransform(s, entity).worldTransform[entity])
getScale(s, entity) == GetScaling(getWorldTransform(s, entity).worldTransform[entity])

(***************************************************************************)
(* SceneGraphService: bounding boxes and the dirty-flag protocol           *)
(***************************************************************************)
\* updateRenderableAABB once getWorldTransform has returned
refreshAABB(s, entity) ==
    [s EXCEPT !.aabb[entity] =
                  setFromTransformedAABB(GeometryAABB, s.worldTransform[entity]),
              !.emitted = Append(@, entity),
              !.renderableDirty[entity] = TRUE]

updateRenderableAABB(s, entity) == refreshAABB(getWorldTransform(s, entity), entity)

dirtifyAABB(s, entity) ==
    IF entity \in s.renderable THEN updateRenderableAABB(s, entity) ELSE s

RECURSIVE unfreezeParentToRoot(_, _)
unfreezeParentToRoot(s, entity) ==
    IF s.parent[entity] = Nil
    THEN [s EXCEPT !.frozen[entity] = FALSE]
    ELSE unfreezeParentToRoot([s EXCEPT !.frozen[entity] = FALSE], s.parent[entity])

RECURSIVE dirtifyWorldInternal(_, _)
RECURSIVE dirtifyChildren(_, _, _)
\* a faulty forEach that leaves the children alone: the world-dirty flag
\* does not reach the descendants
dirtifyChildrenSkipped(s, kids, i) == s

\* hierarchy.children.forEach of dirtifyWorldInternal, from child i on
dirtifyChildren(s, kids, i) ==
    IF i > Len(kids) THEN s
    ELSE dirtifyChildren(IF ~s.dirtyFlag[kids[i]]
                         THEN dirtifyWorldInternal(s, kids[i])
                         ELSE s,
                         kids, i + 1)

dirtifyWorldInternal(s, entity) ==
    dirtifyAABB(IF ~s.dirtyFlag[entity]
                THEN dirtifyChildren([s EXCEPT !.frozen[entity] = FALSE,
                                               !.dirtyFlag[entity] = TRUE],
                                     s.children[entity], 1)
                ELSE s,
                entity)

\* a faulty setDirty without the cascade
setDirtyUnfreezeOnly(s, entity) == unfreezeParentToRoot(s, entity)

\* setDirty(entity, transform, true)
setDirty(s, entity) ==
    dirtifyWorldInternal(IF ~s.dirtyFlag[entity]
                         THEN unfreezeParentToRoot(s, entity)
                         ELSE s,
                         entity)

\* a faulty setLocalDirty that only sets the flag: no cascade, no box refresh
setLocalDirtyFlagOnly(s, entity) == [s EXCEPT !.localDirtyFlag[entity] = TRUE]

\* setLocalDirty(entity, transform, true)
setLocalDirty(s, entity) ==
    IF s.localDirtyFlag[entity] THEN s
    ELSE IF ~s.dirtyFlag[entity]
         THEN setDirty([s EXCEPT !.localDirtyFlag[entity] = TRUE], entity)
         ELSE dirtifyAABB([s EXCEPT !.localDirtyFlag[entity] = TRUE], entity)

(***************************************************************************)
(* SceneGraphService: structural operations                                *)
(***************************************************************************)
\* children.indexOf(entity), 1-based, 0 when absent
RECURSIVE IndexOfFrom(_, _, _)
IndexOfFrom(seq, x, i) ==
    IF i > Len(seq) THEN 0
    ELSE IF seq[i] = x THEN i ELSE IndexOfFrom(seq, x, i + 1)
IndexOf(seq, x) == IndexOfFrom(seq, x, 1)

\* a faulty splice that removes nothing
RemoveAtKept(seq, i) == seq

\* children.splice(index, 1) for the 1-based position i; nothing for i = 0
RemoveAt(seq, i) ==
    IF i > 0 THEN SubSeq(seq, 1, i - 1) \o SubSeq(seq, i + 1, Len(seq)) ELSE seq

\* children.splice(index, 0, x) for a 0-based index >= 0 (an index past the
\* end appends)
InsertAt(seq, index, x) ==
    IF index > Len(seq) THEN Append(seq, x)
    ELSE SubSeq(seq, 1, index) \o <<x>> \o SubSeq(seq, index + 1, Len(seq))

\* the three mat4.get* calls that write the local fields from the matrix m
setLocalFromMatrix(s, entity, m) ==
    [s EXCEPT !.localScale[entity] = GetScaling(m),
              !.localPosition[entity] = GetTranslation(m),
              !.localRotation[entity] = GetRotation(m)]

applyTransform(s, entity) ==
    setDirty(setLocalFromMatrix(s, entity, s.worldTransform[entity]), entity)

\* matrixTransform once getLocalTransform has returned
matrixTransformLocal(s, entity, mat) ==
    setLocalDirty(setLocalFromMatrix(s, entity,
                                     Multiply(s.localTransform[entity], mat)),
                  entity)

matrixTransform(s, entity, mat) ==
    matrixTransformLocal(getLocalTransform(s, entity), entity, mat)

\* detach once applyTransform has returned: the entity leaves the children of
\* its parent p, whose box is refreshed, and the parent link is cleared
detachFrom(s, entity, p) ==
    [dirtifyAABB([s EXCEPT !.children[p] = RemoveAt(@, IndexOf(@, entity))], p)
     EXCEPT !.parent[entity] = Nil]

detach(s, entity) ==
    IF s.parent[entity] # Nil
    THEN detachFrom(applyTransform(s, entity), entity, s.parent[entity])
    ELSE s

\* attach after dirtifyAABB(hierarchy.parent); every entity has a Transform
attachTransform(s, entity, parentEntity) ==
    matrixTransform(s, entity, Invert(s.worldTransform[parentEntity]))

\* attach after the detach of a parented entity
attachTo(s, entity, parentEntity, index) ==
    attachTransform(
        dirtifyAABB([s EXCEPT !.parent[entity] = parentEntity,
                              !.children[parentEntity] =
                                  IF index # NoIndex
                                  THEN InsertAt(@, index, entity)
                                  ELSE Append(@, entity)],
                    parentEntity),
        entity, parentEntity)

\* attach(entity, parentEntity, index?)
attach(s, entity, parentEntity, index) ==
    attachTo(IF s.parent[entity] # Nil THEN detach(s, entity) ELSE s,
             entity, parentEntity, index)

\* getChildren(parent).forEach(detach): forEach walks the live array by
\* index up to its length at the start, skipping indices that no longer exist
RECURSIVE detachEach(_, _, _, _)
detachEach(s, parent, k, len) ==
    IF k >= len THEN s
    ELSE detachEach(IF k < Len(s.children[parent])
                    THEN detach(s, s.children[parent][k + 1])
                    ELSE s,
                    parent, k + 1, len)

detachChildren(s, parent) == detachEach(s, parent, 0, Len(s.children[parent]))

\* the proper descendants of an entity
RECURSIVE Descendants(_, _)
Descendants(s, entity) ==
    {s.children[entity][i] : i \in 1..Len(s.children[entity])}
        \cup UNION {Descendants(s, s.children[entity][i]) :
                        i \in 1..Len(s.children[entity])}

\* visit(entity, visitor) with a visitor that returns true for the entities
\* of stop and changes nothing: the calls of the visitor, in order, appended
\* to calls
RECURSIVE visit(_, _, _, _)
RECURSIVE visitEach(_, _, _, _, _)
\* the for loop of visit over the children array, from element i on
visitEach(s, entities, i, stop, calls) ==
    IF i > Len(entities) THEN calls
    ELSE visitEach(s, entities, i + 1, stop, visit(s, entities[i], stop, calls))

\* a faulty visit that ignores what the visitor returns
visitAll(s, entity, stop, calls) ==
    visitEach(s, s.children[entity], 1, stop, Append(calls, entity))

visit(s, entity, stop, calls) ==
    IF entity \in stop
    THEN Append(calls, entity)
    ELSE visitEach(s, s.children[entity], 1, stop, Append(calls, entity))

(***************************************************************************)
(* SceneGraphService: sort                                                 *)
(***************************************************************************)
\* Array.prototype.sort(sortByZIndex): a stable sort by ascending zIndex
RECURSIVE InsertByZIndex(_, _, _)
InsertByZIndex(s, seq, x) ==
    IF Len(seq) = 0 THEN <<x>>
    ELSE IF s.zIndex[seq[Len(seq)]] - s.zIndex[x] > 0
         THEN Append(InsertByZIndex(s, SubSeq(seq, 1, Len(seq) - 1), x), seq[Len(seq)])
         ELSE Append(seq, x)

RECURSIVE sortByZIndex(_, _)
sortByZIndex(s, seq) ==
    IF Len(seq) = 0 THEN <<>>
    ELSE InsertByZIndex(s, sortByZIndex(s, SubSeq(seq, 1, Len(seq) - 1)), seq[Len(seq)])

\* flatten(entities, result), where entities is the children array of owner
\* (sorted in place), or a fresh array when owner is Nil
RECURSIVE flatten(_, _, _, _)
RECURSIVE flattenEach(_, _, _, _)
\* the forEach of flatten over the sorted array, from element i on
flattenEach(r, list, i, owner) ==
    IF i > Len(list) THEN r
    ELSE flattenEach(flatten(r.s, list[i], r.s.children[list[i]],
                             Append(r.result, list[i])),
                     list, i + 1, owner)

\* flatten once entities.sort has put the array in the order ordered
flattenSorted(s, owner, ordered, result) ==
    flattenEach([s |-> IF owner # Nil
                       THEN [s EXCEPT !.children[owner] = ordered]
                       ELSE s,
                 result |-> result],
                ordered, 1, owner)

flatten(s, owner, entities, result) ==
    IF Len(entities) > 0
    THEN flattenSorted(s, owner, sortByZIndex(s, entities), result)
    ELSE [s |-> s, result |-> result]

\* sort once flatten has returned r
sortStore(r, entity) ==
    [r.s EXCEPT !.sorted[entity] = r.result, !.sortableDirty[entity] = FALSE]

sort(s, entity, force) ==
    IF s.sortableDirty[entity] \/ force
    THEN sortStore(flatten(s, Nil, <<entity>>, <<>>), entity)
    ELSE s

(***************************************************************************)
(* SceneGraphService: transform setters                                    *)
(***************************************************************************)
setOrigin(s, entity, o) == [s EXCEPT !.origin[entity] = o]

setLocalPosition(s, entity, position) ==
    setLocalDirty([s EXCEPT !.localPosition[entity] = position], entity)

setPosition(s, entity, position) ==
    IF s.parent[entity] = Nil
    THEN setLocalPosition(s, entity, position)
    ELSE setLocalDirty(
             [s EXCEPT !.localPosition[entity] =
                           TransformMat4(position,
                                         Invert(s.worldTransform[s.parent[entity]]))],
             entity)

translateLocal(s, entity, translation) ==
    setLocalDirty([s EXCEPT !.localPosition[entity] =
                                VAdd(@, TransformQuat(translation, s.localRotation[entity]))],
                  entity)

\* translate once getPosition has returned
translateFrom(s, entity, translation) ==
    setDirty(setPosition(s, entity,
                         VAdd(GetTranslation(s.worldTransform[entity]), translation)),
             entity)

translate(s, entity, translation) ==
    translateFrom(getWorldTransform(s, entity), entity, translation)

scaleLocal(s, entity, scaling) ==
    setLocalDirty([s EXCEPT !.localScale[entity] = VMul(@, scaling)], entity)

setLocalScale(s, entity, scaling) ==
    setLocalDirty([s EXCEPT !.localScale[entity] = scaling], entity)

rotateLocal(s, entity, degrees) ==
    setLocalDirty([s EXCEPT !.localRotation[entity] = QuatMul(@, FromEuler(degrees))],
                  entity)

setLocalEulerAngles(s, entity, degrees) ==
    setLocalDirty([s EXCEPT !.localRotation[entity] = FromEuler(degrees)], entity)

\* rotate of a parented entity once getRotation(entity) has returned rot:
\* getRotation(hierarchy.parent) is read, and rotation * rot is stored
rotateWorld(s, entity, degrees, rot) ==
    setLocalDirty([getWorldTransform(s, s.parent[entity])
                   EXCEPT !.localRotation[entity] = QuatMul(FromEuler(degrees), rot)],
                  entity)

\* rotate of a parented entity once getWorldTransform(entity) has returned
rotateFrom(s, entity, degrees) ==
    rotateWorld(s, entity, degrees, GetRotation(s.worldTransform[entity]))

rotate(s, entity, degrees) ==
    IF s.parent[entity] = Nil
    THEN rotateLocal(s, entity, degrees)
    ELSE rotateFrom(getWorldTransform(s, entity), entity, degrees)

\* setEulerAngles of a parented entity once getRotation(parent) has returned
setEulerAnglesFrom(s, entity, degrees) ==
    setLocalDirty(
        [s EXCEPT !.localRotation[entity] =
                      QuatMul(FromEuler(degrees),
                              QuatInvert(GetRotation(
                                  s.worldTransform[s.parent[entity]])))],
        entity)

setEulerAngles(s, entity, degrees) ==
    IF s.parent[entity] = Nil
    THEN setLocalEulerAngles(s, entity, degrees)
    ELSE setEulerAnglesFrom(getWorldTransform(s, s.parent[entity]), entity, degrees)

(***************************************************************************)
(* State                                                                   *)
(***************************************************************************)
VARIABLES
    parent,           \* SceneGraphNode.parent of every entity, or Nil
    children,         \* SceneGraphNode.children
    frozen,           \* SceneGraphNode.frozen
    localPosition,    \* Transform.localPosition
    localRotation,    \* Transform.localRotation
    localScale,       \* Transform.localScale
    origin,           \* Transform.origin
    localTransform,   \* Transform.localTransform, the cached local matrix
    worldTransform,   \* Transform.worldTransform, the cached world matrix
    localDirtyFlag,   \* Transform.localDirtyFlag
    dirtyFlag,        \* Transform.dirtyFlag
    zIndex,           \* Sortable.zIndex
    sortableDirty,    \* Sortable.dirty
    sorted,           \* Sortable.sorted
    renderable,       \* the entities with a Renderable component
    aabb,             \* Renderable.aabb, <<>> while unset
    renderableDirty,  \* Renderable.dirty
    emitted,          \* the AABBChanged events emitted by the last call
    last,             \* the last call: its name and arguments
    outcome,          \* how the last call ended: "returned", "hang", "overflow"
    pre,              \* the components before the last call
    inserted,         \* history: the children of every entity in the order
                      \* attach put them in, which sort does not change
    budget            \* the number of calls the run may still make

vars == <<parent, children, frozen, localPosition, localRotation, localScale,
          origin, localTransform, worldTransform, localDirtyFlag, dirtyFlag,
          zIndex, sortableDirty, sorted, renderable, aabb, renderableDirty,
          emitted, last, outcome, pre, inserted, budget>>

\* the components as one record
Cur ==
    [parent |-> parent, children |-> children, frozen |-> frozen,
     localPosition |-> localPosition, localRotation |-> localRotation,
     localScale |-> localScale, origin |-> origin,
     localTransform |-> localTransform, worldTransform |-> worldTransform,
     localDirtyFlag |-> localDirtyFlag, dirtyFlag |-> dirtyFlag,
     zIndex |-> zIndex, sortableDirty |-> sortableDirty, sorted |-> sorted,
     renderable |-> renderable, aabb |-> aabb,
     renderableDirty |-> renderableDirty, emitted |-> emitted]

\* the components at the start of a call: nothing emitted yet
Start == [Cur EXCEPT !.emitted = <<>>]

Op(name, entity, other, num, vec) ==
    [op |-> name, entity |-> entity, other |-> other, num |-> num, vec |-> vec]

\* the components become s
Commit(s) ==
    /\ parent' = s.parent
    /\ children' = s.children
    /\ frozen' = s.frozen
    /\ localPosition' = s.localPosition
    /\ localRotation' = s.localRotation
    /\ localScale' = s.localScale
    /\ origin' = s.origin
    /\ localTransform' = s.localTransform
    /\ worldTransform' = s.worldTransform
    /\ localDirtyFlag' = s.localDirtyFlag
    /\ dirtyFlag' = s.dirtyFlag
    /\ zIndex' = s.zIndex
    /\ sortableDirty' = s.sortableDirty
    /\ sorted' = s.sorted
    /\ renderable' = s.renderable
    /\ aabb' = s.aabb
    /\ renderableDirty' = s.renderableDirty
    /\ emitted' = s.emitted

\* the insertion order after the call op left the components as s
Inserted(s, op) ==
    LET kept == [p \in Nodes |->
                    SelectSeq(inserted[p],
                              LAMBDA c : /\ s.parent[c] = p
                                         /\ ~(op.op = "attach" /\ c = op.entity))]
    IN IF op.op = "attach"
       THEN [kept EXCEPT ![op.other] =
                 IF op.num # NoIndex
                 THEN InsertAt(@, op.num, op.entity)
                 ELSE Append(@, op.entity)]
       ELSE kept

\* a call returns and leaves the components as s
Call(s, op) ==
    /\ Commit(s)
    /\ last' = op
    /\ outcome' = "returned"
    /\ pre' = Cur
    /\ inserted' = Inserted(s, op)
    /\ budget' = budget - 1

(***************************************************************************)
(* Scenes the runs start from, each built by the service's own operations  *)
(***************************************************************************)
\* three roots
SceneRoots(r) == Fresh(r)
\* 1 > 2 > 3 with 2 at local (10, 0) and 3 at local (0, 5), not read yet
SceneChain(r) ==
    [setLocalPosition(
         setLocalPosition(
             attach(attach(Fresh(r), 2, 1, NoIndex), 3, 2, NoIndex),
             2, V(10, 0)),
         3, V(0, 5))
     EXCEPT !.emitted = <<>>]
\* 2 and 3 are the children of 1
SceneFork(r) ==
    [attach(attach(Fresh(r), 2, 1, NoIndex), 3, 1, NoIndex) EXCEPT !.emitted = <<>>]
\* the fork, with 2 constructed on layer 1 above its sibling
SceneLayered(r) == [SceneFork(r) EXCEPT !.zIndex[2] = 1]

Scenes == UNION {{SceneRoots(r), SceneChain(r), SceneFork(r)} : r \in RenderableChoices}

\* a run of at most n calls that starts from one of the scenes
InitWith(scenes, n) ==
    \E s \in scenes :
        /\ parent = s.parent
        /\ children = s.children
        /\ frozen = s.frozen
        /\ localPosition = s.localPosition
        /\ localRotation = s.localRotation
        /\ localScale = s.localScale
        /\ origin = s.origin
        /\ localTransform = s.localTransform
        /\ worldTransform = s.worldTransform
        /\ localDirtyFlag = s.localDirtyFlag
        /\ dirtyFlag = s.dirtyFlag
        /\ zIndex = s.zIndex
        /\ sortableDirty = s.sortableDirty
        /\ sorted = s.sorted
        /\ renderable = s.renderable
        /\ aabb = s.aabb
        /\ renderableDirty = s.renderableDirty
        /\ emitted = s.emitted
        /\ last = Op("init", Nil, Nil, NoIndex, <<>>)
        /\ outcome = "returned"
        /\ pre = s
        /\ inserted = s.children
        /\ budget = n

Init == InitWith(Scenes, MaxSteps)

(***************************************************************************)
(* Calls of the service                                                    *)
(***************************************************************************)
\* attach with a new parent that is neither the entity nor below it
Attach ==
    \E e \in Nodes, p \in Nodes, i \in IndexInputs :
        /\ budget > 0
        /\ e # p
        /\ p \notin Descendants(Cur, e)
        /\ Call(attach(Start, e, p, i), Op("attach", e, p, i, <<>>))

Detach ==
    \E e \in Nodes :
        /\ budget > 0
        /\ Call(detach(Start, e), Op("detach", e, Nil, NoIndex, <<>>))

DetachChildren ==
    \E e \in Nodes :
        /\ budget > 0
        /\ Call(detachChildren(Start, e), Op("detachChildren", e, Nil, NoIndex, <<>>))

Sort ==
    \E e \in Nodes, force \in BOOLEAN :
        /\ budget > 0
        /\ Call(sort(Start, e, force),
             Op("sort", e, Nil, IF force THEN 1 ELSE 0, <<>>))

\* the owner of an entity changes its z-index: Sortable.zIndex is written
\* and Sortable.dirty is set
SetZIndex ==
    \E e \in Nodes, z \in ZIndexInputs :
        /\ budget > 0
        /\ Call([Start EXCEPT !.zIndex[e] = z, !.sortableDirty[e] = TRUE],
             Op("setZIndex", e, Nil, z, <<>>))

SetOrigin ==
    \E e \in Nodes, o \in OriginInputs :
        /\ budget > 0
        /\ Call(setOrigin(Start, e, o), Op("setOrigin", e, Nil, NoIndex, o))

SetLocalPosition ==
    \E e \in Nodes, v \in PositionInputs :
        /\ budget > 0
        /\ Call(setLocalPosition(Start, e, v), Op("setLocalPosition", e, Nil, NoIndex, v))

SetPosition ==
    \E e \in Nodes, v \in PositionInputs :
        /\ budget > 0
        /\ Call(setPosition(Start, e, v), Op("setPosition", e, Nil, NoIndex, v))

TranslateLocal ==
    \E e \in Nodes, v \in TranslationInputs :
        /\ budget > 0
        /\ Call(translateLocal(Start, e, v), Op("translateLocal", e, Nil, NoIndex, v))

Translate ==
    \E e \in Nodes, v \in TranslationInputs :
        /\ budget > 0
        /\ Call(translate(Start, e, v), Op("translate", e, Nil, NoIndex, v))

ScaleLocal ==
    \E e \in Nodes, v \in ScaleInputs :
        /\ budget > 0
        /\ Call(scaleLocal(Start, e, v), Op("scaleLocal", e, Nil, NoIndex, v))

SetLocalScale ==
    \E e \in Nodes, v \in ScaleInputs :
        /\ budget > 0
        /\ Call(setLocalScale(Start, e, v), Op("setLocalScale", e, Nil, NoIndex, v))

RotateLocal ==
    \E e \in Nodes, d \in DegreeInputs :
        /\ budget > 0
        /\ Call(rotateLocal(Start, e, d), Op("rotateLocal", e, Nil, d, <<>>))

SetLocalEulerAngles ==
    \E e \in Nodes, d \in DegreeInputs :
        /\ budget > 0
        /\ Call(setLocalEulerAngles(Start, e, d), Op("setLocalEulerAngles", e, Nil, d, <<>>))

Rotate ==
    \E e \in Nodes, d \in DegreeInputs :
        /\ budget > 0
        /\ Call(rotate(Start, e, d), Op("rotate", e, Nil, d, <<>>))

SetEulerAngles ==
    \E e \in Nodes, d \in DegreeInputs :
        /\ budget > 0
        /\ Call(setEulerAngles(Start, e, d), Op("setEulerAngles", e, Nil, d, <<>>))

\* getWorldTransform, and with it getPosition, getRotation and getScale
GetWorldTransform ==
    \E e \in Nodes :
        /\ budget > 0
        /\ Call(getWorldTransform(Start, e), Op("getWorldTransform", e, Nil, NoIndex, <<>>))

GetLocalTransform ==
    \E e \in Nodes :
        /\ budget > 0
        /\ Call(getLocalTransform(Start, e), Op("getLocalTransform", e, Nil, NoIndex, <<>>))

\* setDirty(entity, transform, true) called from outside the service
SetDirty ==
    \E e \in Nodes :
        /\ budget > 0
        /\ Call(setDirty(Start, e), Op("setDirty", e, Nil, NoIndex, <<>>))

\* visit with a visitor that returns true for the entities of stop; the call
\* is recorded with the entities the visitor was called on
Visit ==
    \E e \in Nodes, stop \in SUBSET Nodes :
        /\ budget > 0
        /\ Commit(Start)
        /\ last' = [op |-> "visit", entity |-> e, other |-> Nil, num |-> NoIndex,
                    vec |-> <<>>, stop |-> stop,
                    visited |-> visit(Start, e, stop, <<>>)]
        /\ outcome' = "returned"
        /\ pre' = Cur
        /\ inserted' = inserted
        /\ budget' = budget - 1

Next ==
    \/ Attach
    \/ Detach
    \/ DetachChildren
    \/ SetOrigin
    \/ SetLocalPosition
    \/ SetPosition
    \/ TranslateLocal
    \/ Translate
    \/ ScaleLocal
    \/ SetLocalScale
    \/ RotateLocal
    \/ SetLocalEulerAngles
    \/ Rotate
    \/ SetEulerAngles
    \/ GetWorldTransform
    \/ GetLocalTransform

Spec == Init /\ [][Next]_vars

(***************************************************************************)
(* A fixed hierarchy: local setters and reads only                         *)
(***************************************************************************)
FixedScenes == UNION {{SceneChain(r), SceneFork(r)} : r \in RenderableChoices}

InitFixed == InitWith(FixedScenes, MaxFixedSteps)

NextFixed ==
    \/ SetLocalPosition
    \/ SetLocalScale
    \/ ScaleLocal
    \/ TranslateLocal
    \/ GetWorldTransform
    \/ GetLocalTransform

SpecFixed == InitFixed /\ [][NextFixed]_vars

(***************************************************************************)
(* The hierarchy alone: attach, detach and detachChildren                  *)
(***************************************************************************)
TreeScenes == {SceneRoots({}), SceneChain({}), SceneFork({})}

InitTree == InitWith(TreeScenes, MaxTreeSteps)

NextTree ==
    \/ Attach
    \/ Detach
    \/ DetachChildren

SpecTree == InitTree /\ [][NextTree]_vars

(***************************************************************************)
(* The hierarchy, z-indices and sort                                       *)
(***************************************************************************)
OrderScenes == {SceneRoots({}), SceneChain({}), SceneFork({}), SceneLayered({})}

InitOrder == InitWith(OrderScenes, MaxOrderSteps)

NextOrder ==
    \/ Attach
    \/ Detach
    \/ DetachChildren
    \/ Sort
    \/ SetZIndex

SpecOrder == InitOrder /\ [][NextOrder]_vars

(***************************************************************************)
(* The hierarchy, z-indices, sort and visit                                *)
(***************************************************************************)
MaxVisitSteps == 2

InitVisit == InitWith(OrderScenes, MaxVisitSteps)

NextVisit ==
    \/ Attach
    \/ Detach
    \/ DetachChildren
    \/ Sort
    \/ SetZIndex
    \/ Visit

SpecVisit == InitVisit /\ [][NextVisit]_vars

(***************************************************************************)
(* Every call of the service, and setDirty, on entities without Renderable *)
(***************************************************************************)
MaxCascadeSteps == 2

CascadeScenes == {SceneRoots({}), SceneChain({}), SceneFork({})}

InitCascade == InitWith(CascadeScenes, MaxCascadeSteps)

NextCascade ==
    \/ Next
    \/ SetDirty

SpecCascade == InitCascade /\ [][NextCascade]_vars

(***************************************************************************)
(* Every call of the service, from scenes that have been read as well      *)
(***************************************************************************)
MaxAscentSteps == 2

\* the chain and the fork after getWorldTransform of their leaves: every flag
\* is clear
SceneChainRead(r) == getWorldTransform(SceneChain(r), 3)
SceneForkRead(r) == getWorldTransform(getWorldTransform(SceneFork(r), 2), 3)

AscentScenes == Scenes \cup {SceneChainRead({}), SceneForkRead({})}

InitAscent == InitWith(AscentScenes, MaxAscentSteps)

SpecAscent == InitAscent /\ [][Next]_vars

(***************************************************************************)
(* An entity attached to itself                                            *)
(***************************************************************************)
\* attach(entity, entity, index) ends in one of three ways.  getWorldTransform
\* of a dirty entity that is its own parent recurses without end (the stack
\* overflows), unfreezeParentToRoot walks the parent links without end (the
\* call hangs), and otherwise the call returns.

\* the setLocalDirty that ends matrixTransform: localDirtyFlag is clear (the
\* getLocalTransform before it cleared it), so it is set, and setDirty follows
\* when dirtyFlag is clear; an entity that gets here with dirtyFlag set
\* carries no Renderable, so dirtifyAABB does nothing
attachSelfDirty(s, entity) ==
    IF ~s.dirtyFlag[entity]
    THEN [s |-> [s EXCEPT !.localDirtyFlag[entity] = TRUE,
                          !.frozen[entity] = FALSE],
          outcome |-> "hang"]
    ELSE [s |-> [s EXCEPT !.localDirtyFlag[entity] = TRUE],
          outcome |-> "returned"]

\* matrixTransform(entity, invert(worldTransform)) once getLocalTransform has
\* returned
attachSelfMatrix(s, entity) ==
    attachSelfDirty(
        setLocalFromMatrix(s, entity,
                           Multiply(s.localTransform[entity],
                                    Invert(s.worldTransform[entity]))),
        entity)

\* attach(entity, entity) once the entity is its own parent and child:
\* dirtifyAABB(hierarchy.parent), then matrixTransform
attachSelfLinked(s, entity) ==
    IF entity \in s.renderable /\ (s.localDirtyFlag[entity] \/ s.dirtyFlag[entity])
    THEN [s |-> s, outcome |-> "overflow"]
    ELSE attachSelfMatrix(
             getLocalTransform(IF entity \in s.renderable
                               THEN refreshAABB(s, entity)
                               ELSE s,
                               entity),
             entity)

\* attach(entity, entity) once a parented entity has been detached
attachSelfTo(s, entity, index) ==
    attachSelfLinked([s EXCEPT !.parent[entity] = entity,
                               !.children[entity] =
                                   IF index # NoIndex
                                   THEN InsertAt(@, index, entity)
                                   ELSE Append(@, entity)],
                     entity)

attachSelf(s, entity, index) ==
    attachSelfTo(IF s.parent[entity] # Nil THEN detach(s, entity) ELSE s,
                 entity, index)

\* the caller breaks the precondition of attach; the run ends there
AttachSelf ==
    \E e \in Nodes, i \in IndexInputs :
        LET r == attachSelf(Start, e, i)
        IN /\ budget > 0
           /\ Commit(r.s)
           /\ last' = Op("attachSelf", e, e, i, <<>>)
           /\ outcome' = r.outcome
           /\ pre' = Cur
           /\ inserted' = inserted
           /\ budget' = 0

NextSelf ==
    \/ Next
    \/ AttachSelf

SpecSelf == Init /\ [][NextSelf]_vars

(***************************************************************************)
(* Reference values for the properties                                     *)
(***************************************************************************)
\* the matrix that getWorldTransform(entity) returns in s
WorldOf(s, entity) == getWorldTransform(s, entity).worldTransform[entity]

\* the local matrix that the local fields of an entity stand for
LocalOf(s, entity) ==
    FromRotationTranslationScaleOrigin(s.localRotation[entity], s.localPosition[entity],
                                       s.localScale[entity], s.origin[entity])

\* the eager reference: the product of the local matrices from the root down
RECURSIVE EagerWorld(_, _)
EagerWorld(s, entity) ==
    IF s.parent[entity] = Nil
    THEN LocalOf(s, entity)
    ELSE Multiply(EagerWorld(s, s.parent[entity]), LocalOf(s, entity))

\* both flags of the entity are clear
Clean(s, entity) == ~s.localDirtyFlag[entity] /\ ~s.dirtyFlag[entity]

\* the number of times x occurs in seq
Count(seq, x) == Cardinality({i \in 1..Len(seq) : seq[i] = x})

LocalSetters == {"setLocalPosition", "setLocalScale", "scaleLocal", "translateLocal"}

\* the entities of seq by ascending z-index, those of equal z-index in the
\* order of seq: the first of the least comes first
RECURSIVE StableOrder(_)
StableOrder(seq) ==
    IF Len(seq) = 0 THEN <<>>
    ELSE LET i == CHOOSE i \in 1..Len(seq) :
                      \A j \in 1..Len(seq) :
                          \/ zIndex[seq[i]] < zIndex[seq[j]]
                          \/ zIndex[seq[i]] = zIndex[seq[j]] /\ i <= j
         IN <<seq[i]>> \o StableOrder(SubSeq(seq, 1, i - 1) \o SubSeq(seq, i + 1, Len(seq)))

\* the pre-order flattening of the subtrees of the entities of seq, the
\* children of every entity taken in StableOrder of their insertion order
RECURSIVE PreOrder(_, _)
PreOrder(seq, i) ==
    IF i > Len(seq) THEN <<>>
    ELSE <<seq[i]>> \o PreOrder(StableOrder(inserted[seq[i]]), 1) \o PreOrder(seq, i + 1)

\* following the parent links from n for at most k steps reaches a root
RECURSIVE ReachesRoot(_, _)
ReachesRoot(n, k) ==
    \/ parent[n] = Nil
    \/ k > 0 /\ ReachesRoot(parent[n], k - 1)

(***************************************************************************)
(* Properties                                                              *)
(***************************************************************************)
\* C1: in every state reached by mutations and reads, for every node n,
\* getWorldTransform(n) equals getWorldTransform(parent(n)) *
\* getLocalTransform(n), and getLocalTransform(n) when n is a root.
C1_WorldIsParentTimesLocal ==
    \A n \in Nodes :
        IF parent[n] = Nil
        THEN WorldOf(Cur, n) = getLocalTransform(Cur, n).localTransform[n]
        ELSE WorldOf(Cur, n) =
                 Multiply(WorldOf(getWorldTransform(Cur, n), parent[n]),
                          getLocalTransform(getWorldTransform(Cur, n), n).localTransform[n])

\* C2: on a fixed hierarchy, under any interleaving of local setters and
\* reads, getWorldTransform(n) of every node n equals the eager reference,
\* the product from the root down to n of the matrices of the current local
\* fields.
C2_ReadEqualsEagerReference ==
    \A n \in Nodes : WorldOf(Cur, n) = EagerWorld(Cur, n)

\* C2 happens: a local setter wrote an ancestor of a node d whose world
\* matrix had been read, and the cached world matrix of d is now out of date
C2_StaleDescendantAfterWrite ==
    /\ last.op \in LocalSetters
    /\ \E d \in Descendants(Cur, last.entity) :
           /\ Clean(pre, d)
           /\ worldTransform[d] # EagerWorld(Cur, d)
           /\ WorldOf(Cur, d) # WorldOf(pre, d)

\* C3: after attach(n, newParent), with newParent neither n nor below n,
\* getPosition(n) returns what it returned before the call.
C3_AttachKeepsPosition ==
    last.op = "attach" =>
        getPosition(Cur, last.entity) = getPosition(pre, last.entity)

\* C4: after detach(n) of a parented node n, n has no parent, is absent from
\* the children of its old parent, getPosition(n) returns what it returned
\* before the call, and the local fields alone give that position.
C4_DetachKeepsPosition ==
    (last.op = "detach" /\ pre.parent[last.entity] # Nil) =>
        /\ parent[last.entity] = Nil
        /\ Count(children[pre.parent[last.entity]], last.entity) = 0
        /\ getPosition(Cur, last.entity) = getPosition(pre, last.entity)
        /\ GetTranslation(LocalOf(Cur, last.entity)) = getPosition(pre, last.entity)

\* C5: for every node n that is child i of P, detach(n) followed by
\* attach(n, P, i) leaves the children of P as they were and
\* getWorldTransform(n) as it was before the detach.
C5_DetachAttachRoundTrip ==
    \A n \in Nodes :
        parent[n] # Nil =>
            /\ attach(detach(Start, n), n, parent[n],
                      IndexOf(children[parent[n]], n) - 1).children[parent[n]]
                   = children[parent[n]]
            /\ WorldOf(attach(detach(Start, n), n, parent[n],
                              IndexOf(children[parent[n]], n) - 1), n)
                   = WorldOf(Cur, n)

\* C6: after setPosition(n, p), getPosition(n) returns p, the local fields of
\* the descendants of n are unchanged, and getPosition(d) of every descendant
\* d is its position under the eager reference with n at p.
C6_SetPositionThenGetPosition ==
    last.op = "setPosition" =>
        /\ getPosition(Cur, last.entity) = last.vec
        /\ \A d \in Descendants(Cur, last.entity) :
               /\ localPosition[d] = pre.localPosition[d]
               /\ getPosition(Cur, d) = GetTranslation(EagerWorld(Cur, d))

\* the world matrix of an entity whose local fields were just written: the
\* world matrix of its parent times the matrix of its local fields
NewWorld(entity) ==
    IF parent[entity] = Nil
    THEN LocalOf(Cur, entity)
    ELSE Multiply(WorldOf(Cur, parent[entity]), LocalOf(Cur, entity))

\* C7: one call of setLocalScale or setLocalPosition on a node that carries a
\* Renderable and whose flags were clear leaves the box of the node equal to
\* its object-space box transformed by the new world matrix, sets
\* Renderable.dirty, and emits AABBChanged for the node exactly once.
C7_SetterRefreshesAABB ==
    (/\ last.op \in {"setLocalScale", "setLocalPosition"}
     /\ last.entity \in renderable
     /\ Clean(pre, last.entity)) =>
        /\ WorldOf(Cur, last.entity) = NewWorld(last.entity)
        /\ aabb[last.entity] =
               setFromTransformedAABB(GeometryAABB, NewWorld(last.entity))
        /\ renderableDirty[last.entity]
        /\ Count(emitted, last.entity) = 1

\* C7 happens: setLocalScale (2, 2) on an unscaled clean root with a
\* Renderable at the origin turns its box into [(-2, -2), (2, 2)]
C7_ScaledBox ==
    /\ last.op = "setLocalScale"
    /\ last.entity \in renderable
    /\ Clean(pre, last.entity)
    /\ parent[last.entity] = Nil
    /\ pre.worldTransform[last.entity] = Identity
    /\ aabb[last.entity] = <<V(-2, -2), V(2, 2)>>
    /\ Count(emitted, last.entity) = 1

\* C8: sort(node, true) returns the pre-order flattening of the subtree of
\* node in which the siblings of every level are in ascending z-index order
\* and siblings of equal z-index are in the order attach inserted them.
C8_SortIsStablePreOrder ==
    (last.op = "sort" /\ last.num = 1) =>
        sorted[last.entity] = PreOrder(<<last.entity>>, 1)

\* C9: under attach, detach and detachChildren every node has no parent or
\* occurs exactly once in the children of its parent, every entry of a
\* children list has the owner of the list as its parent (so it is in no
\* other list), and the parent links of every node lead to a root.
C9_HierarchyWellFormed ==
    /\ \A n \in Nodes :
           parent[n] # Nil => Count(children[parent[n]], n) = 1
    /\ \A p \in Nodes : \A i \in 1..Len(children[p]) :
           parent[children[p][i]] = p
    /\ \A n \in Nodes : ReachesRoot(n, Cardinality(Nodes))

\* C9 happens: attach moved a node from one parent to another parent that
\* has a child already
C9_Reparented ==
    /\ last.op = "attach"
    /\ pre.parent[last.entity] # Nil
    /\ pre.parent[last.entity] # last.other
    /\ parent[last.entity] = last.other
    /\ Len(children[last.other]) >= 2

\* C10: attach(node, node) returns and leaves every parent link and every
\* children list as it was.
C10_AttachSelfIsNoOp ==
    last.op = "attachSelf" =>
        /\ outcome = "returned"
        /\ parent = pre.parent
        /\ children = pre.children

\* C11: detachChildren(parent) leaves the children of parent empty and every
\* entity that was a child of parent when the call started without a parent.
C11_DetachChildrenDetachesAll ==
    last.op = "detachChildren" =>
        /\ children[last.entity] = <<>>
        /\ \A i \in 1..Len(pre.children[last.entity]) :
               parent[pre.children[last.entity][i]] = Nil

\* the indices that lead from the entity n down to d in its subtree
RECURSIVE PathFrom(_, _)
PathFrom(n, d) ==
    IF d = n THEN <<>>
    ELSE Append(PathFrom(n, parent[d]), IndexOf(children[parent[d]], d))

\* the path p comes before the path q in depth-first pre-order: p is a proper
\* prefix of q, or p turns to an earlier child where the two part
PathBefore(p, q) ==
    \/ Len(p) < Len(q) /\ SubSeq(q, 1, Len(p)) = p
    \/ \E i \in 1..Len(p) :
           /\ i <= Len(q)
           /\ SubSeq(p, 1, i - 1) = SubSeq(q, 1, i - 1)
           /\ p[i] < q[i]

\* the entities of the subtree of n with no proper ancestor inside the
\* subtree in the set stop
Unpruned(n, stop) ==
    {d \in {n} \cup Descendants(Cur, n) :
         \A a \in ({n} \cup Descendants(Cur, n)) \ {d} :
             d \in Descendants(Cur, a) => a \notin stop}

C13_CachesMatchFlags ==
    \A n \in Nodes :
        /\ ~localDirtyFlag[n] => localTransform[n] = LocalOf(Cur, n)
        /\ ~dirtyFlag[n] =>
               worldTransform[n] =
                   IF parent[n] = Nil
                   THEN localTransform[n]
                   ELSE Multiply(worldTransform[parent[n]], localTransform[n])

\* the calls that write a local field and end with setLocalDirty
LocalWrites ==
    LocalSetters \cup {"rotateLocal", "setLocalEulerAngles"}

\* C14: without Renderables, after setDirty(n, true) or a local setter on a
\* node n whose flags were clear, n and every descendant of n are world-dirty,
\* no cached local or world matrix has changed, and the dirty flags of every
\* node outside the subtree of n are as they were.
C14_CascadeMarksSubtreeOnly ==
    (/\ last.op \in LocalWrites \cup {"setDirty"}
     /\ Clean(pre, last.entity)) =>
        /\ \A d \in {last.entity} \cup Descendants(Cur, last.entity) : dirtyFlag[d]
        /\ localTransform = pre.localTransform
        /\ worldTransform = pre.worldTransform
        /\ \A x \in Nodes \ ({last.entity} \cup Descendants(Cur, last.entity)) :
               /\ dirtyFlag[x] = pre.dirtyFlag[x]
               /\ localDirtyFlag[x] = pre.localDirtyFlag[x]

\* C14 happens: a local setter on a clean node made a clean descendant
\* world-dirty while a node outside the subtree stayed clean
C14_CleanDescendantMarked ==
    /\ last.op \in LocalWrites
    /\ Clean(pre, last.entity)
    /\ \E d \in Descendants(Cur, last.entity) : Clean(pre, d) /\ dirtyFlag[d]
    /\ \E x \in Nodes \ ({last.entity} \cup Descendants(Cur, last.entity)) : Clean(Cur, x)

\* the proper ancestors of an entity
RECURSIVE Ancestors(_, _)
Ancestors(s, entity) ==
    IF s.parent[entity] = Nil THEN {}
    ELSE {s.parent[entity]} \cup Ancestors(s, s.parent[entity])

\* the flags and the cached matrices of the entity x are as before the call
SameCaches(x) ==
    /\ localDirtyFlag[x] = pre.localDirtyFlag[x]
    /\ dirtyFlag[x] = pre.dirtyFlag[x]
    /\ localTransform[x] = pre.localTransform[x]
    /\ worldTransform[x] = pre.worldTransform[x]

\* C15, the frame: getWorldTransform(n) on a clean n changes no flag and no
\* matrix; otherwise it leaves n and every ancestor of n with both flags
\* clear and every other node's flags and cached matrices as they were
C15_AscentFrame ==
    last.op = "getWorldTransform" =>
        IF Clean(pre, last.entity)
        THEN \A x \in Nodes : SameCaches(x)
        ELSE /\ \A a \in {last.entity} \cup Ancestors(Cur, last.entity) : Clean(Cur, a)
             /\ \A x \in Nodes \ ({last.entity} \cup Ancestors(Cur, last.entity)) :
                    SameCaches(x)

\* C15: getWorldTransform(n) on a clean n changes no flag and no matrix;
\* otherwise it leaves n and every ancestor of n with both flags clear and
\* with cached matrices that are up to date with the local fields, and every
\* other node's flags and cached matrices as they were.
C15_LazyAscent ==
    /\ C15_AscentFrame
    /\ (last.op = "getWorldTransform" /\ ~Clean(pre, last.entity)) =>
           \A a \in {last.entity} \cup Ancestors(Cur, last.entity) :
               /\ localTransform[a] = LocalOf(Cur, a)
               /\ worldTransform[a] = EagerWorld(Cur, a)

\* C16: sort(node) without force, on a node whose list an earlier sort has
\* computed, returns a list that holds node and every current descendant of
\* node exactly once, and nothing else.
C16_UnforcedSortIsCurrent ==
    (last.op = "sort" /\ last.num = 0 /\ pre.sorted[last.entity] # <<>>) =>
        /\ {sorted[last.entity][i] : i \in 1..Len(sorted[last.entity])}
               = {last.entity} \cup Descendants(Cur, last.entity)
        /\ \A d \in {last.entity} \cup Descendants(Cur, last.entity) :
               Count(sorted[last.entity], d) = 1

\* C17: sort(node, force) changes no children list, so the index of every
\* child in its parent is as before and a visit after the sort calls the
\* visitor in the order in which it would have called it before.
C17_SortKeepsChildren ==
    last.op = "sort" =>
        /\ children = pre.children
        /\ visit(Cur, last.entity, {}, <<>>) = visit(pre, last.entity, {}, <<>>)

\* the calls that only read
Reads == {"init", "getWorldTransform", "getLocalTransform"}

\* C18: when a mutator has returned, the box of every node that carries a
\* Renderable and has a box is its object-space box transformed by the true
\* world transform of the node, the composition of the current local fields
\* from the root down to the node.
C18_BoundsAlwaysCurrent ==
    last.op \notin Reads =>
        \A n \in renderable :
            aabb[n] # <<>> =>
                aabb[n] = setFromTransformedAABB(GeometryAABB, EagerWorld(Cur, n))

\* the entities an event was emitted for during the last call
Emitted == {emitted[i] : i \in 1..Len(emitted)}

\* C19: attach(node, newParent) emits AABBChanged during the call, and
\* sets renderable.dirty, for newParent and for every ancestor of newParent
\* that carries a Renderable, up to the root
C19_AttachRefreshesAncestors ==
    last.op = "attach" =>
        \A x \in ({last.other} \cup Ancestors(Cur, last.other)) \cap renderable :
            /\ x \in Emitted
            /\ renderableDirty[x]

\* C20: rotate(n, d) makes getRotation(n) the rotation getRotation(n) gave
\* before the call composed with d, and setEulerAngles(n, a) makes
\* getRotation(n) equal to a, whatever the world rotation of n's parent is
\* (for a root both are rotateLocal and setLocalEulerAngles)
C20_WorldRotationAsRequested ==
    /\ last.op = "rotate" =>
           getRotation(Cur, last.entity)
               = QuatMul(getRotation(pre, last.entity), FromEuler(last.num))
    /\ last.op = "setEulerAngles" =>
           getRotation(Cur, last.entity) = FromEuler(last.num)

\* C21: between operations, a node whose local-dirty and world-dirty flags
\* are both clear has only ancestors whose flags are both clear
C21_CleanNodeHasCleanAncestors ==
    \A n \in Nodes :
        Clean(Cur, n) => \A a \in Ancestors(Cur, n) : Clean(Cur, a)

\* a call that writes has returned and left a node with both flags clear,
\* one of whose ancestors was dirty when the call began
C21_AncestorCleanedByWrite ==
    /\ last.op \notin Reads
    /\ \E n \in Nodes :
           /\ Clean(Cur, n)
           /\ \E a \in Ancestors(Cur, n) : ~Clean(pre, a)

====
